---- MODULE Spec2Model ----
(***************************************************************************)
(* Risk Assessment Engine of src/src/risk_assessment.py.                   *)
(*                                                                         *)
(* The engine is stateless (__init__ is `pass`): every operation is a      *)
(* function of its arguments.  The state of the model is therefore the     *)
(* caller's arguments, the position of the call (pc) and what the call     *)
(* left behind: the value returned or the exception raised, together with  *)
(* the locals the call had built when it ended.                            *)
(*                                                                         *)
(* pandas behaviour the code relies on, modelled as pandas implements it:  *)
(*   - DataFrame.groupby(keys) has dropna=True: a row with a null in any   *)
(*     key column belongs to no group;                                     *)
(*   - groupby([]) raises ValueError("No group keys passed!") on a frame   *)
(*     with rows, and builds an empty grouping on a frame without rows;    *)
(*   - Series[key] raises KeyError when key is not in the index;           *)
(*   - groupby of one key is indexed by scalars, of several by tuples.     *)
(* Python floats are modelled as exact rationals <<num, den>>.             *)
(***************************************************************************)
EXTENDS Integers, Sequences, FiniteSets, TLC

VARIABLES
    self,                   \* the attributes of the RiskAssessmentEngine
    df,                     \* the caller's DataFrame: a sequence of rows
    quasi_identifiers,      \* argument of calculate_uniqueness
    quasi_identifier_sets,  \* argument of calculate_risk_scores
    dargs,                  \* arguments of _determine_risk_level
    risk_scores_arg,        \* the risk_scores argument of
                            \* generate_risk_report and get_high_risk_records
    limit,                  \* argument of get_high_risk_records
    pc,                     \* position of the call
    ret                     \* outcome of the call

vars ==
    <<self, df, quasi_identifiers, quasi_identifier_sets, dargs,
      risk_scores_arg, limit, pc, ret>>

\* the arguments of the calls, self included: no operation of the engine
\* assigns to them
args ==
    <<self, df, quasi_identifiers, quasi_identifier_sets, dargs,
      risk_scores_arg, limit>>

\* lines 61-63: __init__ sets no attribute
init == [attribute \in {} |-> <<>>]

\* ------------------------------------------------------------------ bounds
MaxRows == 3
MaxQILen == 2
MaxRowsScored == 3
MaxSets == 2
MaxCount == 5
MaxTotal == 5
MaxMinK == 22
MaxRowsSelected == 2
MaxScores == 3
MaxLimit == 2
MaxRowsAssessed == 2
MaxRowsWide == 11
MaxRowsFramed == 2
MaxScoresFramed == 2
MaxScoresReduced == 3
MaxRowsTwice == 2
MaxRowsBlock == 11
MaxSetsBlock == 2

\* ------------------------------------------------------------- the inputs
\* df.columns: the schema of the dataset
Columns == {"age", "zip"}

\* a column name that is not in df.columns
AbsentColumn == "ssn"

ColumnNames == Columns \cup {AbsentColumn}

\* a missing value (NaN / None) of a cell
NaN == "NaN"

CellValues == {"25", "30", NaN}

\* row labels (df.index); RangeIndex(n) is 0..n-1
IndexLabels == {0, 1}

\* the cells of a row, without its label
Cells == [age : CellValues, zip : CellValues]

\* DataFrames of n rows with the default RangeIndex
RangeIndexed(n) ==
    {[i \in 1..n |-> [idx |-> i - 1, age |-> c[i].age, zip |-> c[i].zip]] :
        c \in [1..n -> Cells]}

\* DataFrames of n rows with arbitrary (also repeated) row labels and no
\* missing cell
Labelled(n) ==
    [1..n -> [idx : IndexLabels,
              age : CellValues \ {NaN}, zip : CellValues \ {NaN}]]

\* ordered lists of distinct column names, of length 0..n
QISets(n) ==
    UNION {{q \in [1..m -> ColumnNames] :
                \A i, j \in 1..m : i # j => q[i] # q[j]} : m \in 0..n}

Range(s) == {s[i] : i \in DOMAIN s}

Max(a, b) == IF a >= b THEN a ELSE b

\* -------------------------------------------------------------- rationals
Frac(n, d) == <<n, d>>

FAdd(a, b) == <<a[1] * b[2] + b[1] * a[2], a[2] * b[2]>>

FMul(a, b) == <<a[1] * b[1], a[2] * b[2]>>

FLe(a, b) == a[1] * b[2] <= b[1] * a[2]

FLt(a, b) == a[1] * b[2] < b[1] * a[2]

FEq(a, b) == a[1] * b[2] = b[1] * a[2]

FMin(a, b) == IF FLe(a, b) THEN a ELSE b

\* ----------------------------------------------- calculate_uniqueness
\* line 81: set(quasi_identifiers) - set(df.columns)
MissingCols(qis) == Range(qis) \ Columns

\* the group key of a row: a scalar for one key column, a tuple for several
GroupKey(row, qis) ==
    IF Len(qis) = 1 THEN row[qis[1]]
    ELSE [j \in 1..Len(qis) |-> row[qis[j]]]

\* whether groupby keeps the row: dropna=True drops a row with a null key
InGroupBy(row, qis) == \A j \in 1..Len(qis) : row[qis[j]] # NaN

\* a grouping that counts the rows agreeing on the last key column only
GroupBySizeLastKey(d, qis) ==
    LET kept == {i \in 1..Len(d) : InGroupBy(d[i], qis)}
        keys == {GroupKey(d[i], qis) : i \in kept}
        last(i) == d[i][qis[Len(qis)]]
    IN  [key \in keys |->
            Cardinality({i \in kept :
                \E h \in kept : GroupKey(d[h], qis) = key
                                /\ last(h) = last(i)})]

\* a grouping of consecutive rows only (itertools.groupby): the size of a
\* key is the length of its first run
GroupBySizeConsecutive(d, qis) ==
    LET kept == {i \in 1..Len(d) : InGroupBy(d[i], qis)}
        keys == {GroupKey(d[i], qis) : i \in kept}
        firstOf(key) == CHOOSE i \in kept :
                            /\ GroupKey(d[i], qis) = key
                            /\ \A h \in kept :
                                   GroupKey(d[h], qis) = key => i <= h
    IN  [key \in keys |->
            Cardinality({i \in kept :
                /\ i >= firstOf(key)
                /\ \A h \in firstOf(key)..i :
                       h \in kept /\ GroupKey(d[h], qis) = key})]

\* line 88: df.groupby(quasi_identifiers).size(), a Series from group key to
\* the number of rows of the group
GroupBySize(d, qis) ==
    LET kept == {i \in 1..Len(d) : InGroupBy(d[i], qis)}
        keys == {GroupKey(d[i], qis) : i \in kept}
    IN  [key \in keys |->
            Cardinality({i \in kept : GroupKey(d[i], qis) = key})]

\* a UniquenessResult flagged with the boundaries of the report lists
\* (rare 2..5, safe > 10)
UniquenessResultReportBounds(row, qis, k) ==
    [record_index |-> row.idx,
     k_anonymity |-> k,
     quasi_identifier_values |-> [c \in Range(qis) |-> row[c]],
     is_unique |-> (k = 1),
     is_rare |-> (2 <= k /\ k <= 5),
     is_safe |-> (k > 10)]

\* lines 105-116: the UniquenessResult of one row
UniquenessResult(row, qis, k) ==
    [record_index |-> row.idx,
     k_anonymity |-> k,
     quasi_identifier_values |-> [c \in Range(qis) |-> row[c]],
     is_unique |-> (k = 1),
     is_rare |-> (2 <= k /\ k <= 9),
     is_safe |-> (k >= 10)]

\* what a call of calculate_uniqueness ends with: the exception raised
\* ("none" when it returns), its message, the columns it names, whether
\* qi_counts was built, and the local list `results` at that moment
UOutcome(raised, msg, cols, grouped, results) ==
    [raised |-> raised, msg |-> msg, cols |-> cols,
     grouped |-> grouped, results |-> results]

\* lines 90-116: the loop over df.iterrows(), from row i on
RECURSIVE UniquenessLoop(_, _, _, _, _)
UniquenessLoop(d, qis, qi_counts, i, results) ==
    IF i > Len(d) THEN UOutcome("none", "", {}, TRUE, results)
    ELSE LET row == d[i]
             key == IF Len(qis) = 1
                    THEN row[qis[1]]
                    ELSE [j \in 1..Len(qis) |-> row[qis[j]]]
         IN  IF key \notin DOMAIN qi_counts
             THEN UOutcome("KeyError", "", {}, TRUE, results)
             ELSE UniquenessLoop(d, qis, qi_counts, i + 1,
                     Append(results,
                            UniquenessResult(row, qis, qi_counts[key])))

\* calculate_uniqueness without lines 81-83: the absent column is met by
\* groupby, which raises KeyError
calculate_uniqueness_unvalidated(d, qis) ==
    IF MissingCols(qis) # {}
    THEN UOutcome("KeyError", "", MissingCols(qis), FALSE, <<>>)
    ELSE IF Len(qis) = 0 /\ Len(d) > 0
    THEN UOutcome("ValueError", "No group keys passed!", {}, FALSE, <<>>)
    ELSE UniquenessLoop(d, qis, GroupBySize(d, qis), 1, <<>>)

\* lines 65-118
calculate_uniqueness(d, qis) ==
    IF MissingCols(qis) # {}
    THEN UOutcome("ValueError", "not found", MissingCols(qis), FALSE, <<>>)
    ELSE IF Len(qis) = 0 /\ Len(d) > 0
    THEN UOutcome("ValueError", "No group keys passed!", {}, FALSE, <<>>)
    ELSE UniquenessLoop(d, qis, GroupBySize(d, qis), 1, <<>>)

\* --------------------------------------------- _determine_risk_level
\* the f-string of a reasoning: its fixed wording and the number it cites
Reasoning(phrase, n) == [phrase |-> phrase, n |-> n]

RiskLevel(level, score, reasoning) ==
    [risk_level |-> level, risk_score |-> score, reasoning |-> reasoning]

\* the rules with min_k == 1 tested before unique_count >= 2
determine_risk_level_k1_first(unique_count, total_qi_sets, min_k) ==
    IF min_k = 1
    THEN RiskLevel("high", Frac(95, 100),
                   Reasoning("Uniquely identifiable", 1))
    ELSE IF unique_count >= 2
    THEN LET risk_score ==
                 FAdd(Frac(9, 10),
                      FMul(Frac(unique_count, Max(total_qi_sets, 1)),
                           Frac(1, 10)))
         IN  RiskLevel("high", FMin(risk_score, Frac(1, 1)),
                       Reasoning("Unique on", unique_count))
    ELSE IF min_k = 2
    THEN RiskLevel("high", Frac(90, 100), Reasoning("Extremely rare", 2))
    ELSE IF 3 <= min_k /\ min_k <= 9
    THEN LET risk_score ==
                 FAdd(Frac(4, 10), FMul(Frac(10 - min_k, 1), Frac(1, 20)))
         IN  RiskLevel("medium", FMin(risk_score, Frac(80, 100)),
                       Reasoning("Insufficient anonymity", min_k))
    ELSE LET risk_score ==
                 FAdd(Frac(1, 10), FMul(Frac(10, min_k), Frac(25, 100)))
             reasoning ==
                 IF min_k >= 20 THEN Reasoning("Strong anonymity", min_k)
                 ELSE IF min_k >= 15 THEN Reasoning("Good anonymity", min_k)
                 ELSE Reasoning("Adequate anonymity", min_k)
         IN  RiskLevel("low", FMin(risk_score, Frac(40, 100)), reasoning)

\* the rules with the low score 0.1 + (10 / min_k) * 0.5, not clamped
determine_risk_level_low_unclamped(unique_count, total_qi_sets, min_k) ==
    IF unique_count >= 2
    THEN LET risk_score ==
                 FAdd(Frac(9, 10),
                      FMul(Frac(unique_count, Max(total_qi_sets, 1)),
                           Frac(1, 10)))
         IN  RiskLevel("high", FMin(risk_score, Frac(1, 1)),
                       Reasoning("Unique on", unique_count))
    ELSE IF min_k = 1
    THEN RiskLevel("high", Frac(95, 100),
                   Reasoning("Uniquely identifiable", 1))
    ELSE IF min_k = 2
    THEN RiskLevel("high", Frac(90, 100), Reasoning("Extremely rare", 2))
    ELSE IF 3 <= min_k /\ min_k <= 9
    THEN LET risk_score ==
                 FAdd(Frac(4, 10), FMul(Frac(10 - min_k, 1), Frac(1, 20)))
         IN  RiskLevel("medium", FMin(risk_score, Frac(80, 100)),
                       Reasoning("Insufficient anonymity", min_k))
    ELSE LET risk_score ==
                 FAdd(Frac(1, 10), FMul(Frac(10, min_k), Frac(50, 100)))
             reasoning ==
                 IF min_k >= 20 THEN Reasoning("Strong anonymity", min_k)
                 ELSE IF min_k >= 15 THEN Reasoning("Good anonymity", min_k)
                 ELSE Reasoning("Adequate anonymity", min_k)
         IN  RiskLevel("low", risk_score, reasoning)

\* the rules with the grade 'good' (min_k >= 15) tested before 'strong'
determine_risk_level_good_first(unique_count, total_qi_sets, min_k) ==
    IF unique_count >= 2
    THEN LET risk_score ==
                 FAdd(Frac(9, 10),
                      FMul(Frac(unique_count, Max(total_qi_sets, 1)),
                           Frac(1, 10)))
         IN  RiskLevel("high", FMin(risk_score, Frac(1, 1)),
                       Reasoning("Unique on", unique_count))
    ELSE IF min_k = 1
    THEN RiskLevel("high", Frac(95, 100),
                   Reasoning("Uniquely identifiable", 1))
    ELSE IF min_k = 2
    THEN RiskLevel("high", Frac(90, 100), Reasoning("Extremely rare", 2))
    ELSE IF 3 <= min_k /\ min_k <= 9
    THEN LET risk_score ==
                 FAdd(Frac(4, 10), FMul(Frac(10 - min_k, 1), Frac(1, 20)))
         IN  RiskLevel("medium", FMin(risk_score, Frac(80, 100)),
                       Reasoning("Insufficient anonymity", min_k))
    ELSE LET risk_score ==
                 FAdd(Frac(1, 10), FMul(Frac(10, min_k), Frac(25, 100)))
             reasoning ==
                 IF min_k >= 15 THEN Reasoning("Good anonymity", min_k)
                 ELSE IF min_k >= 20 THEN Reasoning("Strong anonymity", min_k)
                 ELSE Reasoning("Adequate anonymity", min_k)
         IN  RiskLevel("low", FMin(risk_score, Frac(40, 100)), reasoning)

\* the rules without the one for min_k == 2, which falls to the last branch
determine_risk_level_without_k2(unique_count, total_qi_sets, min_k) ==
    IF unique_count >= 2
    THEN LET risk_score ==
                 FAdd(Frac(9, 10),
                      FMul(Frac(unique_count, Max(total_qi_sets, 1)),
                           Frac(1, 10)))
         IN  RiskLevel("high", FMin(risk_score, Frac(1, 1)),
                       Reasoning("Unique on", unique_count))
    ELSE IF min_k = 1
    THEN RiskLevel("high", Frac(95, 100),
                   Reasoning("Uniquely identifiable", 1))
    ELSE IF 3 <= min_k /\ min_k <= 9
    THEN LET risk_score ==
                 FAdd(Frac(4, 10), FMul(Frac(10 - min_k, 1), Frac(1, 20)))
         IN  RiskLevel("medium", FMin(risk_score, Frac(80, 100)),
                       Reasoning("Insufficient anonymity", min_k))
    ELSE LET risk_score ==
                 FAdd(Frac(1, 10), FMul(Frac(10, min_k), Frac(25, 100)))
             reasoning ==
                 IF min_k >= 20 THEN Reasoning("Strong anonymity", min_k)
                 ELSE IF min_k >= 15 THEN Reasoning("Good anonymity", min_k)
                 ELSE Reasoning("Adequate anonymity", min_k)
         IN  RiskLevel("low", FMin(risk_score, Frac(40, 100)), reasoning)

\* lines 203-237
determine_risk_level(unique_count, total_qi_sets, min_k) ==
    IF unique_count >= 2
    THEN LET risk_score ==
                 FAdd(Frac(9, 10),
                      FMul(Frac(unique_count, Max(total_qi_sets, 1)),
                           Frac(1, 10)))
         IN  RiskLevel("high", FMin(risk_score, Frac(1, 1)),
                       Reasoning("Unique on", unique_count))
    ELSE IF min_k = 1
    THEN RiskLevel("high", Frac(95, 100),
                   Reasoning("Uniquely identifiable", 1))
    ELSE IF min_k = 2
    THEN RiskLevel("high", Frac(90, 100), Reasoning("Extremely rare", 2))
    ELSE IF 3 <= min_k /\ min_k <= 9
    THEN LET risk_score ==
                 FAdd(Frac(4, 10), FMul(Frac(10 - min_k, 1), Frac(1, 20)))
         IN  RiskLevel("medium", FMin(risk_score, Frac(80, 100)),
                       Reasoning("Insufficient anonymity", min_k))
    ELSE LET risk_score ==
                 FAdd(Frac(1, 10), FMul(Frac(10, min_k), Frac(25, 100)))
             reasoning ==
                 IF min_k >= 20 THEN Reasoning("Strong anonymity", min_k)
                 ELSE IF min_k >= 15 THEN Reasoning("Good anonymity", min_k)
                 ELSE Reasoning("Adequate anonymity", min_k)
         IN  RiskLevel("low", FMin(risk_score, Frac(40, 100)), reasoning)

\* ---------------------------------------------- calculate_risk_scores
\* what a call of calculate_risk_scores ends with: the exception raised
\* ("none" when it returns), its message, the columns it names, and the
\* local list `risk_scores` at that moment
SOutcome(raised, msg, cols, risk_scores) ==
    [raised |-> raised, msg |-> msg, cols |-> cols,
     risk_scores |-> risk_scores]

\* the first k taken for the minimum
MinOfFirst(ks) == ks[1]

\* the last k taken for the minimum
MinOfLast(ks) == ks[Len(ks)]

\* min(k_values)
RECURSIVE MinOf(_)
MinOf(ks) ==
    IF Len(ks) = 1 THEN ks[1]
    ELSE LET m == MinOf(Tail(ks)) IN IF ks[1] <= m THEN ks[1] ELSE m

\* line 149: next((r for r in uniqueness_results if r.record_index == idx),
\* None); the position of the first match, 0 for None
FirstMatch(uniqueness_results, idx) ==
    LET hits == {n \in 1..Len(uniqueness_results) :
                     uniqueness_results[n].record_index = idx}
    IN  IF hits = {} THEN 0
        ELSE CHOOSE n \in hits : \A m \in hits : n <= m

\* lines 146-159: the loop over quasi_identifier_sets for the record
\* labelled idx, from entry j on; an exception of calculate_uniqueness
\* propagates
RECURSIVE SetsLoop(_, _, _, _, _, _)
SetsLoop(d, qi_sets, idx, j, unique_count, k_values) ==
    IF j > Len(qi_sets)
    THEN [raised |-> "none", msg |-> "", cols |-> {},
          unique_count |-> unique_count, k_values |-> k_values]
    ELSE LET u == calculate_uniqueness(d, qi_sets[j])
             uniqueness_results == u.results
             found == FirstMatch(uniqueness_results, idx)
             \* lines 150-155: the positional fallback (labels are ints)
             at == IF found # 0 THEN found
                   ELSE IF 0 <= idx /\ idx < Len(uniqueness_results)
                   THEN idx + 1
                   ELSE 0
         IN  IF u.raised # "none"
             THEN [raised |-> u.raised, msg |-> u.msg, cols |-> u.cols,
                   unique_count |-> unique_count, k_values |-> k_values]
             ELSE IF at = 0
             THEN [raised |-> "ValueError",
                   msg |-> "Could not find uniqueness result",
                   cols |-> {},
                   unique_count |-> unique_count, k_values |-> k_values]
             ELSE LET result == uniqueness_results[at]
                  IN  SetsLoop(d, qi_sets, idx, j + 1,
                               IF result.is_unique
                               THEN unique_count + 1 ELSE unique_count,
                               Append(k_values, result.k_anonymity))

\* lines 162-175: the RiskScore of one record
RiskScore(idx, total_qi_sets, unique_count, k_values) ==
    LET min_k == IF Len(k_values) > 0 THEN MinOf(k_values) ELSE 1
        level == determine_risk_level(unique_count, total_qi_sets, min_k)
    IN  [record_index |-> idx,
         risk_level |-> level.risk_level,
         risk_score |-> level.risk_score,
         unique_on_qi_count |-> unique_count,
         k_anonymity |-> min_k,
         reasoning |-> level.reasoning]

\* lines 142-175: the loop over df.index, from position p on
RECURSIVE RecordsLoop(_, _, _, _)
RecordsLoop(d, qi_sets, p, risk_scores) ==
    IF p > Len(d) THEN SOutcome("none", "", {}, risk_scores)
    ELSE LET idx == d[p].idx
             inner == SetsLoop(d, qi_sets, idx, 1, 0, <<>>)
         IN  IF inner.raised # "none"
             THEN SOutcome(inner.raised, inner.msg, inner.cols, risk_scores)
             ELSE RecordsLoop(d, qi_sets, p + 1,
                     Append(risk_scores,
                            RiskScore(idx, Len(qi_sets),
                                      inner.unique_count, inner.k_values)))

\* a scorer that evaluates every distinct QI-set once
calculate_risk_scores_deduplicated(d, qi_sets) ==
    LET first == {j \in 1..Len(qi_sets) :
                     \A h \in 1..(j - 1) : qi_sets[h] # qi_sets[j]}
        nth(i) == CHOOSE j \in first :
                      Cardinality({h \in first : h < j}) = i - 1
        distinct == [i \in 1..Cardinality(first) |-> qi_sets[nth(i)]]
    IN  RecordsLoop(d, distinct, 1, <<>>)

\* lines 120-177
calculate_risk_scores(d, qi_sets) == RecordsLoop(d, qi_sets, 1, <<>>)

\* a scorer that keeps its RiskScores on the engine and returns all it has
\* kept
calculate_risk_scores_kept(engine, d, qi_sets) ==
    LET out == calculate_risk_scores(d, qi_sets)
        kept == IF "risk_scores" \in DOMAIN engine
                THEN engine["risk_scores"] ELSE <<>>
        all == kept \o out.risk_scores
    IN  [self |-> [attribute \in {"risk_scores"} |-> all],
         outcome |-> SOutcome(out.raised, out.msg, out.cols, all)]

\* lines 120-177 as a method of the engine: the attributes of self after
\* the call (no statement reads or assigns one) and the outcome
calculate_risk_scores_method(engine, d, qi_sets) ==
    [self |-> engine, outcome |-> calculate_risk_scores(d, qi_sets)]

\* ---------------------------------------------- get_high_risk_records
\* what a call of get_high_risk_records ends with: the exception raised
\* ("none" when it returns), and the rows of result_df, each the row of df
\* it was taken from with the two columns added to the copy
HOutcome(raised, msg, rows) == [raised |-> raised, msg |-> msg, rows |-> rows]

\* line 333: [rs for rs in risk_scores if rs.risk_level == 'high']
RECURSIVE HighRisk(_)
HighRisk(scores) ==
    IF Len(scores) = 0 THEN <<>>
    ELSE IF scores[1].risk_level = "high"
    THEN <<scores[1]>> \o HighRisk(Tail(scores))
    ELSE HighRisk(Tail(scores))

\* an unstable insertion: rs goes before the entries of equal score
RECURSIVE InsertBeforeTies(_, _)
InsertBeforeTies(sorted, rs) ==
    IF Len(sorted) = 0 THEN <<rs>>
    ELSE IF FLe(sorted[1].risk_score, rs.risk_score)
    THEN <<rs>> \o sorted
    ELSE <<sorted[1]>> \o InsertBeforeTies(Tail(sorted), rs)

\* the place of rs in a list sorted by descending risk_score: behind every
\* entry whose score is not smaller (the sort is stable, also with
\* reverse=True)
RECURSIVE InsertDescending(_, _)
InsertDescending(sorted, rs) ==
    IF Len(sorted) = 0 THEN <<rs>>
    ELSE IF FLt(sorted[1].risk_score, rs.risk_score)
    THEN <<rs>> \o sorted
    ELSE <<sorted[1]>> \o InsertDescending(Tail(sorted), rs)

\* line 336: high_risk.sort(key=lambda rs: rs.risk_score, reverse=True)
RECURSIVE SortDescending(_, _)
SortDescending(sorted, rest) ==
    IF Len(rest) = 0 THEN sorted
    ELSE SortDescending(InsertDescending(sorted, rest[1]), Tail(rest))

\* a slice that takes 0 for "no limit" (high_risk[:n or None])
SliceToOrAll(list, n) ==
    IF n = 0 THEN list
    ELSE IF n > 0
    THEN SubSeq(list, 1, IF n <= Len(list) THEN n ELSE Len(list))
    ELSE SubSeq(list, 1, Max(Len(list) + n, 0))

\* the Python slice high_risk[:n]: a negative n counts from the end
SliceTo(list, n) ==
    IF n >= 0
    THEN SubSeq(list, 1, IF n <= Len(list) THEN n ELSE Len(list))
    ELSE SubSeq(list, 1, Max(Len(list) + n, 0))

\* the rows of d labelled idx, in the order of d
RowsLabelled(d, idx) == SelectSeq(d, LAMBDA row : row.idx = idx)

\* line 342: df.loc[indices]: for each label of the list, in its order, all
\* the rows carrying it
RECURSIVE Loc(_, _)
Loc(d, indices) ==
    IF Len(indices) = 0 THEN <<>>
    ELSE RowsLabelled(d, indices[1]) \o Loc(d, Tail(indices))

\* lines 332-346
get_high_risk_records(d, scores, n) ==
    LET high_risk == SortDescending(<<>>, HighRisk(scores))
        taken == SliceTo(high_risk, n)
        indices == [i \in 1..Len(taken) |-> taken[i].record_index]
        result_df == Loc(d, indices)
    IN  IF \E i \in 1..Len(indices) : RowsLabelled(d, indices[i]) = <<>>
        THEN HOutcome("KeyError", "not in index", <<>>)
        ELSE IF Len(result_df) # Len(taken)
        THEN HOutcome("ValueError",
                      "Length of values does not match length of index",
                      <<>>)
        ELSE HOutcome("none", "",
                      [i \in 1..Len(taken) |->
                          [row |-> result_df[i],
                           risk_score |-> taken[i].risk_score,
                           risk_reasoning |-> taken[i].reasoning]])

\* ------------------------------- get_high_risk_records on its objects
\* the DataFrame objects of a call: the caller's df and, once line 342 has
\* run, the local result_df
CallerObjects(d) == [o \in {"df"} |-> d]

\* a frame with the column name holding values (one value per row)
WithColumn(frame, name, values) ==
    [i \in 1..Len(frame) |->
        [c \in DOMAIN frame[i] \cup {name} |->
            IF c = name THEN values[i] ELSE frame[i][c]]]

\* line 342: result_df = df.loc[indices].copy(), a new object
LocCopy(heap, indices) ==
    [o \in DOMAIN heap \cup {"result_df"} |->
        IF o = "result_df" THEN Loc(heap["df"], indices) ELSE heap[o]]

\* a column assignment that lands on the caller's df
SetColumnOnCaller(heap, obj, name, values) ==
    IF Len(values) = Len(heap["df"])
    THEN [heap EXCEPT !["df"] = WithColumn(heap["df"], name, values)]
    ELSE heap

\* lines 343, 344: obj[name] = values
SetColumn(heap, obj, name, values) ==
    [heap EXCEPT ![obj] = WithColumn(heap[obj], name, values)]

\* lines 332-346, with the objects at the end of the call: the exception
\* raised ("none" when it returns result_df) and the DataFrame objects
get_high_risk_records_objects(d, scores, n) ==
    LET high_risk == SortDescending(<<>>, HighRisk(scores))
        taken == SliceTo(high_risk, n)
        indices == [i \in 1..Len(taken) |-> taken[i].record_index]
        heap0 == CallerObjects(d)
        heap1 == LocCopy(heap0, indices)
        heap2 == SetColumn(heap1, "result_df", "risk_score",
                           [i \in 1..Len(taken) |-> taken[i].risk_score])
        heap3 == SetColumn(heap2, "result_df", "risk_reasoning",
                           [i \in 1..Len(taken) |-> taken[i].reasoning])
    IN  IF \E i \in 1..Len(indices) : RowsLabelled(d, indices[i]) = <<>>
        THEN [raised |-> "KeyError", msg |-> "not in index", heap |-> heap0]
        ELSE IF Len(heap1["result_df"]) # Len(taken)
        THEN [raised |-> "ValueError",
              msg |-> "Length of values does not match length of index",
              heap |-> heap1]
        ELSE [raised |-> "none", msg |-> "", heap |-> heap3]

\* ----------------------------------------------- generate_risk_report
\* a Counter that has no entry under 'medium'
CountLevelNoMedium(scores, level) ==
    IF level = "medium" THEN 0
    ELSE Cardinality({p \in 1..Len(scores) : scores[p].risk_level = level})

\* lines 257-260: risk_counter[level]
CountLevel(scores, level) ==
    Cardinality({p \in 1..Len(scores) : scores[p].risk_level = level})

\* lines 263-265: (count / total * 100) if total > 0 else 0
Percentage(count, total) ==
    IF total > 0 THEN FMul(Frac(count, total), Frac(100, 1)) ELSE Frac(0, 1)

\* a rounding that cuts the third decimal off
Round2Down(x) == Frac((x[1] * 100) \div x[2], 100)

\* round(x, 2) of a value x >= 0: the nearest multiple of 0.01, a tie going
\* to the even one
Round2(x) ==
    LET q == (x[1] * 100) \div x[2]
        r == (x[1] * 100) % x[2]
    IN  IF 2 * r < x[2] THEN Frac(q, 100)
        ELSE IF 2 * r > x[2] THEN Frac(q + 1, 100)
        ELSE IF q % 2 = 0 THEN Frac(q, 100)
        ELSE Frac(q + 1, 100)

\* line 268: k_values = [rs.k_anonymity for rs in risk_scores]
KValues(scores) == [p \in 1..Len(scores) |-> scores[p].k_anonymity]

\* sum(k_values)
RECURSIVE SumOf(_)
SumOf(ks) == IF Len(ks) = 0 THEN 0 ELSE ks[1] + SumOf(Tail(ks))

\* the report's rare boundary taken from the classifier (2 <= k <= 9)
IsRareRecordTo9(k) == 2 <= k /\ k <= 9

\* lines 273-275: the conditions of the three classification lists
IsUniqueRecord(k) == k = 1

IsRareRecord(k) == 2 <= k /\ k <= 5

IsSafeRecord(k) == k > 10

\* [rs.record_index for rs in kept]
RecordIndexes(kept) == [i \in 1..Len(kept) |-> kept[i].record_index]

\* an aggregation whose minimum of no k is 1, the scorer's default
generate_risk_report_min_default_1(d, scores) ==
    LET total == Len(scores)
        k_values == KValues(scores)
    IN  [total_records |-> total,
         high_risk_count |-> CountLevel(scores, "high"),
         medium_risk_count |-> CountLevel(scores, "medium"),
         low_risk_count |-> CountLevel(scores, "low"),
         high_risk_percentage |->
             Round2(Percentage(CountLevel(scores, "high"), total)),
         medium_risk_percentage |->
             Round2(Percentage(CountLevel(scores, "medium"), total)),
         low_risk_percentage |->
             Round2(Percentage(CountLevel(scores, "low"), total)),
         average_k_anonymity |->
             Round2(IF Len(k_values) > 0
                    THEN Frac(SumOf(k_values), Len(k_values))
                    ELSE Frac(0, 1)),
         min_k_anonymity |-> IF Len(k_values) > 0 THEN MinOf(k_values) ELSE 1,
         unique_records |-> RecordIndexes(
             SelectSeq(scores,
                       LAMBDA rs : IsUniqueRecord(rs.k_anonymity))),
         rare_records |-> RecordIndexes(
             SelectSeq(scores,
                       LAMBDA rs : IsRareRecord(rs.k_anonymity))),
         safe_records |-> RecordIndexes(
             SelectSeq(scores,
                       LAMBDA rs : IsSafeRecord(rs.k_anonymity)))]

\* lines 239-290; the DataFrame d is not read
generate_risk_report(d, scores) ==
    LET total == Len(scores)
        high_count == CountLevel(scores, "high")
        medium_count == CountLevel(scores, "medium")
        low_count == CountLevel(scores, "low")
        high_pct == Percentage(high_count, total)
        medium_pct == Percentage(medium_count, total)
        low_pct == Percentage(low_count, total)
        k_values == KValues(scores)
        avg_k == IF Len(k_values) > 0
                 THEN Frac(SumOf(k_values), Len(k_values))
                 ELSE Frac(0, 1)
        min_k == IF Len(k_values) > 0 THEN MinOf(k_values) ELSE 0
    IN  [total_records |-> total,
         high_risk_count |-> high_count,
         medium_risk_count |-> medium_count,
         low_risk_count |-> low_count,
         high_risk_percentage |-> Round2(high_pct),
         medium_risk_percentage |-> Round2(medium_pct),
         low_risk_percentage |-> Round2(low_pct),
         average_k_anonymity |-> Round2(avg_k),
         min_k_anonymity |-> min_k,
         unique_records |-> RecordIndexes(
             SelectSeq(scores,
                       LAMBDA rs : IsUniqueRecord(rs.k_anonymity))),
         rare_records |-> RecordIndexes(
             SelectSeq(scores,
                       LAMBDA rs : IsRareRecord(rs.k_anonymity))),
         safe_records |-> RecordIndexes(
             SelectSeq(scores,
                       LAMBDA rs : IsSafeRecord(rs.k_anonymity)))]

\* ------------------------------------------------------ assess_dataset
\* what a call of assess_dataset ends with: the exception raised by
\* calculate_risk_scores, or the pair (risk_scores, risk_report)
AOutcome(raised, msg, cols, risk_scores, risk_report) ==
    [raised |-> raised, msg |-> msg, cols |-> cols,
     risk_scores |-> risk_scores, risk_report |-> risk_report]

\* lines 292-313
assess_dataset(d, qi_sets) ==
    LET scored == calculate_risk_scores(d, qi_sets)
    IN  IF scored.raised # "none"
        THEN AOutcome(scored.raised, scored.msg, scored.cols, <<>>, <<>>)
        ELSE AOutcome("none", "", {}, scored.risk_scores,
                      generate_risk_report(d, scored.risk_scores))

\* ------------------------------------------------------------ the calls
NoArgs == [unique_count |-> 0, total_qi_sets |-> 0, min_k |-> 0]

Pending == [raised |-> "pending"]

InitU ==
    /\ df \in UNION {RangeIndexed(n) : n \in 0..MaxRows}
    /\ quasi_identifiers \in QISets(MaxQILen)
    /\ quasi_identifier_sets = <<>>
    /\ dargs = NoArgs
    /\ risk_scores_arg = <<>>
    /\ limit = 0
    /\ self = init
    /\ pc = "call"
    /\ ret = Pending

CalculateUniqueness ==
    /\ pc = "call"
    /\ ret' = calculate_uniqueness(df, quasi_identifiers)
    /\ pc' = "done"
    /\ UNCHANGED args

NextU == CalculateUniqueness

SpecU == InitU /\ [][NextU]_vars

\* the QI-sets the scorer is given entries from
ScoredQISets ==
    {<<>>, <<"age">>, <<"zip">>, <<"age", "zip">>, <<AbsentColumn>>}

InitS ==
    /\ df \in UNION {RangeIndexed(n) \cup Labelled(n) : n \in 0..MaxRowsScored}
    /\ quasi_identifiers = <<>>
    /\ quasi_identifier_sets \in
           UNION {[1..m -> ScoredQISets] : m \in 0..MaxSets}
    /\ dargs = NoArgs
    /\ risk_scores_arg = <<>>
    /\ limit = 0
    /\ self = init
    /\ pc = "call"
    /\ ret = Pending

CalculateRiskScores ==
    /\ pc = "call"
    /\ ret' = calculate_risk_scores(df, quasi_identifier_sets)
    /\ pc' = "done"
    /\ UNCHANGED args

NextS == CalculateRiskScores

SpecS == InitS /\ [][NextS]_vars

InitD ==
    /\ df = <<>>
    /\ quasi_identifiers = <<>>
    /\ quasi_identifier_sets = <<>>
    /\ dargs \in [unique_count : 0..MaxCount,
                  total_qi_sets : 0..MaxTotal,
                  min_k : 1..MaxMinK]
    /\ risk_scores_arg = <<>>
    /\ limit = 0
    /\ self = init
    /\ pc = "call"
    /\ ret = Pending

DetermineRiskLevel ==
    /\ pc = "call"
    /\ ret' = determine_risk_level(dargs.unique_count, dargs.total_qi_sets,
                                   dargs.min_k)
    /\ pc' = "done"
    /\ UNCHANGED args

NextD == DetermineRiskLevel

SpecD == InitD /\ [][NextD]_vars

\* the default of the limit parameter (line 319)
DefaultLimit == 10

\* the frames the selector is given: any row labels, no missing cell
SelectorFrames(n) ==
    [1..n -> [idx : IndexLabels, age : CellValues \ {NaN}, zip : {"25"}]]

\* the RiskScores the selector is given: of a record unique on both of two
\* QI-sets (high, 1.0), unique on the only one (high, 0.95), and with k = 3
\* (medium)
SelectorScores ==
    {RiskScore(idx, 2, 2, <<1, 1>>) : idx \in IndexLabels}
        \cup {RiskScore(idx, 1, 1, <<1>>) : idx \in IndexLabels}
        \cup {RiskScore(idx, 1, 0, <<3>>) : idx \in IndexLabels}

InitH ==
    /\ df \in UNION {SelectorFrames(n) : n \in 0..MaxRowsSelected}
    /\ quasi_identifiers = <<>>
    /\ quasi_identifier_sets = <<>>
    /\ dargs = NoArgs
    /\ risk_scores_arg \in
           UNION {[1..m -> SelectorScores] : m \in 0..MaxScores}
    /\ limit \in ((0 - MaxLimit)..MaxLimit) \cup {DefaultLimit}
    /\ self = init
    /\ pc = "call"
    /\ ret = Pending

GetHighRiskRecords ==
    /\ pc = "call"
    /\ ret' = get_high_risk_records(df, risk_scores_arg, limit)
    /\ pc' = "done"
    /\ UNCHANGED args

NextH == GetHighRiskRecords

SpecH == InitH /\ [][NextH]_vars

\* the k_anonymity values of the RiskScores the reporter is given: on both
\* sides of every boundary of the report (1, 2..5, 6..10, > 10)
ReportKs == {1, 2, 5, 6, 10, 11}

\* the RiskScores the reporter is given: the score of a record with minimum
\* k under one QI-set, for any record id
ReportScores ==
    {RiskScore(idx, 1, IF k = 1 THEN 1 ELSE 0, <<k>>) :
        idx \in 0..(MaxScores - 1), k \in ReportKs}

InitR ==
    /\ df = <<>>
    /\ quasi_identifiers = <<>>
    /\ quasi_identifier_sets = <<>>
    /\ dargs = NoArgs
    /\ risk_scores_arg \in
           UNION {[1..m -> ReportScores] : m \in 0..MaxScores}
    /\ limit = 0
    /\ self = init
    /\ pc = "call"
    /\ ret = Pending

GenerateRiskReport ==
    /\ pc = "call"
    /\ ret' = generate_risk_report(df, risk_scores_arg)
    /\ pc' = "done"
    /\ UNCHANGED args

NextR == GenerateRiskReport

SpecR == InitR /\ [][NextR]_vars

InitA ==
    /\ df \in UNION {RangeIndexed(n) : n \in 0..MaxRowsAssessed}
    /\ quasi_identifiers = <<>>
    /\ quasi_identifier_sets \in
           UNION {[1..m -> ScoredQISets] : m \in 0..MaxSets}
    /\ dargs = NoArgs
    /\ risk_scores_arg = <<>>
    /\ limit = 0
    /\ self = init
    /\ pc = "call"
    /\ ret = Pending

AssessDataset ==
    /\ pc = "call"
    /\ ret' = assess_dataset(df, quasi_identifier_sets)
    /\ pc' = "done"
    /\ UNCHANGED args

NextA == AssessDataset

SpecA == InitA /\ [][NextA]_vars

\* DataFrames of n rows, default RangeIndex, that differ in one column only:
\* long enough for groups of 10 and more rows
WideFrames(n) ==
    {[i \in 1..n |-> [idx |-> i - 1, age |-> a[i], zip |-> "25"]] :
        a \in [1..n -> {"25", "30"}]}

InitW ==
    /\ df \in UNION {WideFrames(n) : n \in 0..MaxRowsWide}
    /\ quasi_identifiers \in {<<"age">>, <<"age", "zip">>}
    /\ quasi_identifier_sets = <<>>
    /\ dargs = NoArgs
    /\ risk_scores_arg = <<>>
    /\ limit = 0
    /\ self = init
    /\ pc = "call"
    /\ ret = Pending

NextW == CalculateUniqueness

SpecW == InitW /\ [][NextW]_vars

\* every operation of the engine on one dataset
InitF ==
    /\ df \in UNION {SelectorFrames(n) : n \in 0..MaxRowsFramed}
    /\ quasi_identifiers \in {<<"age">>, <<AbsentColumn>>}
    /\ quasi_identifier_sets = <<quasi_identifiers>>
    /\ dargs = NoArgs
    /\ risk_scores_arg \in
           UNION {[1..m -> SelectorScores] : m \in 0..MaxScoresFramed}
    /\ limit \in {0 - 1, 1, DefaultLimit}
    /\ self = init
    /\ pc = "call"
    /\ ret = Pending

SelectHighRiskRecords ==
    /\ pc = "call"
    /\ ret' = get_high_risk_records_objects(df, risk_scores_arg, limit)
    /\ df' = ret'.heap["df"]
    /\ pc' = "selected"
    /\ UNCHANGED <<self, quasi_identifiers, quasi_identifier_sets, dargs,
                   risk_scores_arg, limit>>

NextF ==
    \/ CalculateUniqueness
    \/ CalculateRiskScores
    \/ GenerateRiskReport
    \/ AssessDataset
    \/ SelectHighRiskRecords

SpecF == InitF /\ [][NextF]_vars

\* the RiskScore lists whose reduction is compared over reorderings and
\* splits: one record id, every k of ReportKs
ReducedScores ==
    {RiskScore(0, 1, IF k = 1 THEN 1 ELSE 0, <<k>>) : k \in ReportKs}

InitG ==
    /\ df = <<>>
    /\ quasi_identifiers = <<>>
    /\ quasi_identifier_sets = <<>>
    /\ dargs = NoArgs
    /\ risk_scores_arg \in
           UNION {[1..m -> ReducedScores] : m \in 0..MaxScoresReduced}
    /\ limit = 0
    /\ self = init
    /\ pc = "call"
    /\ ret = Pending

NextG == GenerateRiskReport

SpecG == InitG /\ [][NextG]_vars

\* two calls of calculate_risk_scores on one engine, with the same
\* arguments
InitT ==
    /\ df \in UNION {RangeIndexed(n) : n \in 0..MaxRowsTwice}
    /\ quasi_identifiers = <<>>
    /\ quasi_identifier_sets \in
           UNION {[1..m -> ScoredQISets] : m \in 0..MaxSets}
    /\ dargs = NoArgs
    /\ risk_scores_arg = <<>>
    /\ limit = 0
    /\ self = init
    /\ pc = "call"
    /\ ret = Pending

FirstCall ==
    /\ pc = "call"
    /\ LET call == calculate_risk_scores_method(self, df,
                                                quasi_identifier_sets)
       IN  /\ self' = call.self
           /\ ret' = [first |-> call.outcome]
    /\ pc' = "once"
    /\ UNCHANGED <<df, quasi_identifiers, quasi_identifier_sets, dargs,
                   risk_scores_arg, limit>>

SecondCall ==
    /\ pc = "once"
    /\ LET call == calculate_risk_scores_method(self, df,
                                                quasi_identifier_sets)
       IN  /\ self' = call.self
           /\ ret' = [first |-> ret.first, second |-> call.outcome]
    /\ pc' = "twice"
    /\ UNCHANGED <<df, quasi_identifiers, quasi_identifier_sets, dargs,
                   risk_scores_arg, limit>>

NextT == FirstCall \/ SecondCall

SpecT == InitT /\ [][NextT]_vars

\* DataFrames of n rows, default RangeIndex, in two groups by age: the
\* first a rows and the n - a others; groups of 1 to n rows
BlockFrames(n) ==
    {[i \in 1..n |-> [idx |-> i - 1,
                      age |-> IF i <= a THEN "25" ELSE "30",
                      zip |-> "25"]] : a \in 0..n}

\* the QI-sets the scorer is given on these frames
BlockQISets == {<<"age">>, <<"zip">>, <<"age", "zip">>}

InitV ==
    /\ df \in UNION {BlockFrames(n) : n \in 0..MaxRowsBlock}
    /\ quasi_identifiers = <<>>
    /\ quasi_identifier_sets \in
           UNION {[1..m -> BlockQISets] : m \in 0..MaxSetsBlock}
    /\ dargs = NoArgs
    /\ risk_scores_arg = <<>>
    /\ limit = 0
    /\ self = init
    /\ pc = "call"
    /\ ret = Pending

NextV == CalculateRiskScores

SpecV == InitV /\ [][NextV]_vars

\* ============================================================ properties
\* the rows of d that share row i's exact QI-value tuple, a missing value
\* being equal to a missing value
SameQI(d, qis, i) ==
    {j \in 1..Len(d) : \A c \in Range(qis) : d[j][c] = d[i][c]}

\* the distinct QI-value groups of d
QIGroups(d, qis) == {SameQI(d, qis, i) : i \in 1..Len(d)}

\* the sum of 1/k over a list of UniquenessResults
RECURSIVE SumOfInverseK(_)
SumOfInverseK(results) ==
    IF Len(results) = 0 THEN Frac(0, 1)
    ELSE FAdd(Frac(1, results[1].k_anonymity), SumOfInverseK(Tail(results)))

\* the QI-set is not empty and all its columns are in the dataset
ValidQISet(qis) == Len(qis) > 0 /\ Range(qis) \subseteq Columns

\* row i has a missing value in a QI column
HasMissingValue(d, qis, i) == \E c \in Range(qis) : d[i][c] = NaN

\* every record got its k, the size of its group, and the k are those of
\* one partition of the dataset
PartitionOf(d, qis, out) ==
    /\ out.raised = "none"
    /\ Len(out.results) = Len(d)
    /\ \A i \in 1..Len(d) :
           /\ out.results[i].k_anonymity >= 1
           /\ out.results[i].k_anonymity = Cardinality(SameQI(d, qis, i))
    /\ FEq(SumOfInverseK(out.results),
           Frac(Cardinality(QIGroups(d, qis)), 1))

\* C1: for every dataset and every non-empty QI-set whose columns all exist,
\* calculate_uniqueness gives each record a k >= 1 that is the number of
\* records sharing its exact QI-value tuple, and the sum of 1/k over all
\* records is the number of distinct QI-value groups.
C1_PartitionInvariant ==
    (pc = "done" /\ ValidQISet(quasi_identifiers))
        => PartitionOf(df, quasi_identifiers, ret)

\* C1, on the datasets that have no missing value in a QI column: the
\* partition invariant holds there.
C1_PartitionWithoutMissingValues ==
    (/\ pc = "done"
     /\ ValidQISet(quasi_identifiers)
     /\ \A i \in 1..Len(df) : ~HasMissingValue(df, quasi_identifiers, i))
        => PartitionOf(df, quasi_identifiers, ret)

\* C5: monotonicity of k.  When calculate_uniqueness returns for a QI-set B,
\* then for every non-empty proper prefix A of B on which it returns too,
\* every record's k under B is at most its k under A.
C5_MonotoneInColumns ==
    (pc = "done" /\ ret.raised = "none")
        => \A m \in 1..(Len(quasi_identifiers) - 1) :
               LET underA == calculate_uniqueness(
                                 df, SubSeq(quasi_identifiers, 1, m))
               IN  underA.raised = "none"
                       => \A i \in 1..Len(df) :
                              ret.results[i].k_anonymity
                                  <= underA.results[i].k_anonymity

\* C5 witness: a returned call on two columns where the appended column
\* split a group: some record's k dropped below its k under the first column.
C5_Witness ==
    /\ pc = "done"
    /\ ret.raised = "none"
    /\ Len(quasi_identifiers) = 2
    /\ \E i \in 1..Len(df) :
           /\ ret.results[i].k_anonymity = 1
           /\ calculate_uniqueness(df, SubSeq(quasi_identifiers, 1, 1))
                  .results[i].k_anonymity >= 2

\* C6: a record with a missing value in a QI column is grouped like any
\* other (null equals null, no wildcard): calculate_uniqueness raises
\* nothing and gives it the number of records with the same QI values.
C6_NullIsAGroupValue ==
    (pc = "done" /\ ValidQISet(quasi_identifiers))
        => \A i \in 1..Len(df) :
               HasMissingValue(df, quasi_identifiers, i)
                   => /\ ret.raised = "none"
                      /\ Len(ret.results) = Len(df)
                      /\ ret.results[i].k_anonymity
                             = Cardinality(SameQI(df, quasi_identifiers, i))

\* C8: whenever a column of the QI-set is absent from the dataset,
\* calculate_uniqueness raises ValueError "... not found ..." naming exactly
\* the absent columns, before grouping and before any UniquenessResult.
C8_AbsentColumnRejected ==
    (pc = "done" /\ \E c \in Range(quasi_identifiers) : c \notin Columns)
        => /\ ret.raised = "ValueError"
           /\ ret.msg = "not found"
           /\ ret.cols = {c \in Range(quasi_identifiers) : c \notin Columns}
           /\ ~ret.grouped
           /\ ret.results = <<>>

\* C8 witness: a dataset with rows, a QI-set whose first column exists and
\* whose second is absent, rejected.
C8_Witness ==
    /\ pc = "done"
    /\ Len(df) >= 1
    /\ quasi_identifiers = <<"age", AbsentColumn>>
    /\ ret.raised = "ValueError"
    /\ ret.cols = {AbsentColumn}

\* C10: calculate_uniqueness with an empty QI-set is rejected with a
\* validation error before any grouping or per-record computation, for every
\* dataset.
C10_EmptyQISetRejected ==
    (pc = "done" /\ Len(quasi_identifiers) = 0)
        => /\ ret.raised = "ValueError"
           /\ ~ret.grouped
           /\ ret.results = <<>>

\* --------------------------------------------------- _determine_risk_level
\* the claimed result of the five rules, the scores in closed form
ClaimedLevel(u, t, k) ==
    IF u >= 2 THEN "high"
    ELSE IF k = 1 THEN "high"
    ELSE IF k = 2 THEN "high"
    ELSE IF 3 <= k /\ k <= 9 THEN "medium"
    ELSE "low"

ClaimedScore(u, t, k) ==
    IF u >= 2 THEN FMin(Frac(9 * Max(t, 1) + u, 10 * Max(t, 1)), Frac(1, 1))
    ELSE IF k = 1 THEN Frac(19, 20)
    ELSE IF k = 2 THEN Frac(9, 10)
    ELSE IF 3 <= k /\ k <= 9 THEN FMin(Frac(18 - k, 20), Frac(4, 5))
    ELSE FMin(Frac(2 * k + 50, 20 * k), Frac(2, 5))

ValidArgs(a) ==
    /\ 0 <= a.unique_count
    /\ a.unique_count <= a.total_qi_sets
    /\ a.min_k >= 1

AllArgs ==
    [unique_count : 0..MaxCount, total_qi_sets : 0..MaxTotal,
     min_k : 1..MaxMinK]

\* C4: for every valid input the score is in [0, 1], a high score is >= 0.90,
\* a medium score <= 0.80, a low score <= 0.40, and the ranges of the three
\* levels are disjoint: every medium score is below every high score and
\* every low score below every medium score.
C4_RangeSeparation ==
    (pc = "done" /\ ValidArgs(dargs))
        => /\ FLe(Frac(0, 1), ret.risk_score)
           /\ FLe(ret.risk_score, Frac(1, 1))
           /\ ret.risk_level \in {"high", "medium", "low"}
           /\ ret.risk_level = "high" => FLe(Frac(90, 100), ret.risk_score)
           /\ ret.risk_level = "medium" => FLe(ret.risk_score, Frac(80, 100))
           /\ ret.risk_level = "low" => FLe(ret.risk_score, Frac(40, 100))
           /\ \A a \in AllArgs :
                  ValidArgs(a) =>
                      LET other == determine_risk_level(
                                       a.unique_count, a.total_qi_sets,
                                       a.min_k)
                      IN  /\ (ret.risk_level = "high"
                              /\ other.risk_level # "high")
                                 => FLt(other.risk_score, ret.risk_score)
                          /\ (ret.risk_level = "medium"
                              /\ other.risk_level = "low")
                                 => FLt(other.risk_score, ret.risk_score)

\* C4 witness: a valid call that returned the lowest medium score (min_k = 9),
\* the one nearest to the low range.
C4_Witness ==
    /\ pc = "done"
    /\ ValidArgs(dargs)
    /\ dargs.min_k = 9
    /\ ret.risk_level = "medium"
    /\ FEq(ret.risk_score, Frac(45, 100))

\* ------------------------------------------------ calculate_risk_scores
\* a list of at least one QI-set, each non-empty with existing columns
ValidQISets(qi_sets) ==
    /\ Len(qi_sets) >= 1
    /\ \A j \in 1..Len(qi_sets) : ValidQISet(qi_sets[j])

\* the k of the record at position p under the QI-set qis
KOf(d, qis, p) == Cardinality(SameQI(d, qis, p))

\* C3: for every record, calculate_risk_scores sets unique_on_qi_count to the
\* number of entries under which the record has k == 1 and k_anonymity to the
\* record's minimum k over all entries; the output holds one RiskScore per
\* input record, in input order.
C3_CountAndMinimumPerRecord ==
    (pc = "done" /\ ValidQISets(quasi_identifier_sets))
        => /\ ret.raised = "none"
           /\ Len(ret.risk_scores) = Len(df)
           /\ \A p \in 1..Len(df) :
                  LET rs == ret.risk_scores[p]
                      ks == {KOf(df, quasi_identifier_sets[j], p) :
                                j \in 1..Len(quasi_identifier_sets)}
                  IN  /\ rs.record_index = df[p].idx
                      /\ rs.unique_on_qi_count =
                             Cardinality(
                                 {j \in 1..Len(quasi_identifier_sets) :
                                      KOf(df, quasi_identifier_sets[j], p)
                                          = 1})
                      /\ rs.k_anonymity \in ks
                      /\ \A k \in ks : rs.k_anonymity <= k

\* C7: calculate_risk_scores called with an empty list of QI-sets fails with
\* a validation error for every dataset; it never returns RiskScores computed
\* from a default k.
C7_EmptyQISetListRejected ==
    (pc = "done" /\ Len(quasi_identifier_sets) = 0)
        => /\ ret.raised = "ValueError"
           /\ ret.risk_scores = <<>>

\* C9: if any entry of quasi_identifier_sets names a column absent from the
\* dataset, calculate_risk_scores fails as a whole and returns no RiskScore
\* list, for every dataset including a zero-row one and wherever the bad
\* entry stands in the list.
C9_AbsentColumnFailsWholeScore ==
    (/\ pc = "done"
     /\ \E j \in 1..Len(quasi_identifier_sets) :
            ~(Range(quasi_identifier_sets[j]) \subseteq Columns))
        => ret.raised # "none"

\* ------------------------------------------------ get_high_risk_records
\* C11: get_high_risk_records fails with an error whenever limit < 0; it
\* never returns a result for a negative limit.
C11_NegativeLimitRejected ==
    (pc = "done" /\ limit < 0) => ret.raised # "none"

\* the row labels identify the records: no label is repeated
UniqueLabels(d) ==
    \A i, j \in 1..Len(d) : d[i].idx = d[j].idx => i = j

\* every RiskScore is the score of a record of d
ScoresOf(d, scores) ==
    \A p \in 1..Len(scores) :
        \E i \in 1..Len(d) : d[i].idx = scores[p].record_index

\* the positions of the high-risk entries of a RiskScore list
HighPositions(scores) ==
    {p \in 1..Len(scores) : scores[p].risk_level = "high"}

\* how many high-risk entries come before entry p in descending order of
\* score, ties in the order of the list
RankOf(scores, p) ==
    Cardinality({q \in HighPositions(scores) :
        \/ FLt(scores[p].risk_score, scores[q].risk_score)
        \/ FEq(scores[p].risk_score, scores[q].risk_score) /\ q < p})

\* C12: for limit >= 0 and the scores of a dataset whose labels identify its
\* records, get_high_risk_records returns exactly the high-risk records, by
\* descending risk_score with ties in their original order, cut to the first
\* limit entries (min(limit, number of high records) rows), each row the
\* record's own row with the risk_score and reasoning of its own RiskScore.
C12_HighRiskSortedTruncated ==
    (/\ pc = "done"
     /\ limit >= 0
     /\ UniqueLabels(df)
     /\ ScoresOf(df, risk_scores_arg))
        => LET high == HighPositions(risk_scores_arg)
               n == IF limit <= Cardinality(high)
                    THEN limit ELSE Cardinality(high)
           IN  /\ ret.raised = "none"
               /\ Len(ret.rows) = n
               /\ \A p \in high :
                      RankOf(risk_scores_arg, p) < n =>
                          LET r == ret.rows[RankOf(risk_scores_arg, p) + 1]
                              rs == risk_scores_arg[p]
                          IN  /\ r.row.idx = rs.record_index
                              /\ r.row \in Range(df)
                              /\ r.risk_score = rs.risk_score
                              /\ r.risk_reasoning = rs.reasoning

\* C12 witness: three high-risk scores, the second the highest and the first
\* and third tied on different records, limit 2: the result holds the second
\* and then the first, and the third is cut.
C12_Witness ==
    /\ pc = "done"
    /\ limit = 2
    /\ UniqueLabels(df)
    /\ ScoresOf(df, risk_scores_arg)
    /\ Len(risk_scores_arg) = 3
    /\ HighPositions(risk_scores_arg) = {1, 2, 3}
    /\ FLt(risk_scores_arg[1].risk_score, risk_scores_arg[2].risk_score)
    /\ FEq(risk_scores_arg[1].risk_score, risk_scores_arg[3].risk_score)
    /\ risk_scores_arg[1].record_index # risk_scores_arg[3].record_index
    /\ ret.raised = "none"
    /\ Len(ret.rows) = 2
    /\ ret.rows[1].row.idx = risk_scores_arg[2].record_index
    /\ ret.rows[2].row.idx = risk_scores_arg[1].record_index

\* C13: get_high_risk_records with limit == 0 returns an empty result and
\* raises no error, for any risk-score list with at least one high-risk
\* entry.
C13_ZeroLimitIsEmpty ==
    (/\ pc = "done"
     /\ limit = 0
     /\ HighPositions(risk_scores_arg) # {})
        => /\ ret.raised = "none"
           /\ ret.rows = <<>>

\* C13 witness: limit 0 on a list with two high-risk entries of a dataset
\* with rows, returned empty.
C13_Witness ==
    /\ pc = "done"
    /\ limit = 0
    /\ Len(df) >= 1
    /\ Cardinality(HighPositions(risk_scores_arg)) >= 2
    /\ ret.raised = "none"
    /\ ret.rows = <<>>


\* ------------------------------------------------- generate_risk_report
\* the positions of the RiskScores of one level
LevelPositions(scores, level) ==
    {p \in 1..Len(scores) : scores[p].risk_level = level}

\* C14: in every report of generate_risk_report the three counts add up to
\* total_records, and total_records is the number of RiskScores given.
C14_CountsSumToTotal ==
    pc = "done" =>
        /\ ret.total_records = Len(risk_scores_arg)
        /\ ret.high_risk_count + ret.medium_risk_count + ret.low_risk_count
               = ret.total_records

\* a report over one record of each level
C14_Witness ==
    /\ pc = "done"
    /\ ret.total_records = 3
    /\ \A level \in {"high", "medium", "low"} :
           Cardinality(LevelPositions(risk_scores_arg, level)) = 1
    /\ ret.medium_risk_count = 1

\* C14, second part: when the scores come from calculate_risk_scores (here
\* through assess_dataset), total_records is the number of dataset rows.
C14_TotalIsRowCount ==
    (pc = "done" /\ ret.raised = "none") =>
        /\ ret.risk_report.total_records = Len(df)
        /\ ret.risk_report.high_risk_count
               + ret.risk_report.medium_risk_count
               + ret.risk_report.low_risk_count = Len(df)

IsZero(x) == FEq(x, Frac(0, 1))

\* C15: for a zero-row dataset assess_dataset raises no error, whatever the
\* QI-set list, and its report (the report of generate_risk_report over the
\* empty RiskScore list) has total_records, the three counts, the three
\* percentages, average_k_anonymity and min_k_anonymity all zero and the
\* three classification lists empty.
C15_ZeroRowReportIsZero ==
    (pc = "done" /\ Len(df) = 0) =>
        /\ ret.raised = "none"
        /\ ret.risk_scores = <<>>
        /\ ret.risk_report.total_records = 0
        /\ ret.risk_report.high_risk_count = 0
        /\ ret.risk_report.medium_risk_count = 0
        /\ ret.risk_report.low_risk_count = 0
        /\ IsZero(ret.risk_report.high_risk_percentage)
        /\ IsZero(ret.risk_report.medium_risk_percentage)
        /\ IsZero(ret.risk_report.low_risk_percentage)
        /\ IsZero(ret.risk_report.average_k_anonymity)
        /\ ret.risk_report.min_k_anonymity = 0
        /\ ret.risk_report.unique_records = <<>>
        /\ ret.risk_report.rare_records = <<>>
        /\ ret.risk_report.safe_records = <<>>

\* the zero-row dataset assessed under two QI-sets
C15_Witness ==
    /\ pc = "done"
    /\ Len(df) = 0
    /\ quasi_identifier_sets = <<<<"age">>, <<"age", "zip">>>>
    /\ ret.raised = "none"
    /\ ret.risk_report.total_records = 0

\* the positions of the RiskScores whose k lies in lo..hi
KPositions(scores, lo, hi) ==
    {p \in 1..Len(scores) :
        lo <= scores[p].k_anonymity /\ scores[p].k_anonymity <= hi}

\* list holds exactly the record ids at the positions P, in input order
ListsInOrder(list, scores, P) ==
    /\ Len(list) = Cardinality(P)
    /\ \A p \in P :
           list[Cardinality({q \in P : q < p}) + 1]
               = scores[p].record_index

\* the largest k a RiskScore of the list holds
TopK(scores) ==
    IF Len(scores) = 0 THEN 11
    ELSE CHOOSE k \in Range(KValues(scores)) :
             \A h \in Range(KValues(scores)) : h <= k

DistinctRecords(scores) ==
    \A p, q \in 1..Len(scores) :
        scores[p].record_index = scores[q].record_index => p = q

\* C16: in every report unique_records is exactly the record ids with
\* k_anonymity == 1, rare_records exactly those with 2 <= k_anonymity <= 5
\* and safe_records exactly those with k_anonymity > 10, each in input order;
\* when the record ids are distinct the three lists are pairwise disjoint and
\* a record with 6 <= k_anonymity <= 10 is in none of them.
C16_ClassificationLists ==
    pc = "done" =>
        LET scores == risk_scores_arg
            top == Max(TopK(scores), 11)
        IN  /\ ListsInOrder(ret.unique_records, scores,
                            KPositions(scores, 1, 1))
            /\ ListsInOrder(ret.rare_records, scores,
                            KPositions(scores, 2, 5))
            /\ ListsInOrder(ret.safe_records, scores,
                            KPositions(scores, 11, top))
            /\ DistinctRecords(scores) =>
                   /\ Range(ret.unique_records) \cap Range(ret.rare_records)
                          = {}
                   /\ Range(ret.unique_records) \cap Range(ret.safe_records)
                          = {}
                   /\ Range(ret.rare_records) \cap Range(ret.safe_records)
                          = {}
                   /\ \A p \in KPositions(scores, 6, 10) :
                          scores[p].record_index \notin
                              Range(ret.unique_records)
                                  \cup Range(ret.rare_records)
                                  \cup Range(ret.safe_records)

\* records 2, 0, 1 with k 6, 5, 11: record 2 is in no list
C16_Witness ==
    /\ pc = "done"
    /\ Len(risk_scores_arg) = 3
    /\ KValues(risk_scores_arg) = <<6, 5, 11>>
    /\ [p \in 1..3 |-> risk_scores_arg[p].record_index] = <<2, 0, 1>>
    /\ ret.unique_records = <<>>
    /\ ret.rare_records = <<0>>
    /\ ret.safe_records = <<1>>

\* C17: for a non-empty RiskScore list min_k_anonymity is the minimum
\* k_anonymity over all records (and > 0), average_k_anonymity is the
\* arithmetic mean of all k_anonymity values rounded to 2 decimals (the
\* multiple of 0.01 within 0.005 of the mean), and min_k_anonymity <=
\* average_k_anonymity.
C17_MinAndAverage ==
    (pc = "done" /\ Len(risk_scores_arg) >= 1) =>
        LET ks == KValues(risk_scores_arg)
            n == Len(ks)
            avg == ret.average_k_anonymity
            cents == (avg[1] * 100) \div avg[2]
            diff == cents * n - 100 * SumOf(ks)
        IN  /\ ret.min_k_anonymity \in Range(ks)
            /\ \A k \in Range(ks) : ret.min_k_anonymity <= k
            /\ ret.min_k_anonymity > 0
            /\ FEq(avg, Frac(cents, 100))
            /\ 2 * diff <= n
            /\ 2 * (0 - diff) <= n
            /\ FLe(Frac(ret.min_k_anonymity, 1), avg)

\* k 1, 2, 5: minimum 1, mean 8/3, reported as 2.67
C17_Witness ==
    /\ pc = "done"
    /\ KValues(risk_scores_arg) = <<1, 2, 5>>
    /\ ret.min_k_anonymity = 1
    /\ FEq(ret.average_k_anonymity, Frac(267, 100))


\* ------------------------------------------------- uniqueness flags
BoolCount(b) == IF b THEN 1 ELSE 0

RowOrders(n) ==
    {f \in [1..n -> 1..n] : \A i, j \in 1..n : f[i] = f[j] => i = j}

\* the dataset with its rows in the order f, each row keeping its label
Reordered(d, f) == [i \in 1..Len(d) |-> d[f[i]]]

\* C19: row-order independence.  For every permutation of the rows of the
\* dataset, calculate_uniqueness ends the same way (returns, or raises the
\* same exception), and when it returns every record has the same k as in
\* the original order: the output is the same mapping record -> k, listed
\* in the new row order.
C19_RowOrderIndependent ==
    pc = "done" =>
        \A f \in RowOrders(Len(df)) :
            LET permuted == calculate_uniqueness(Reordered(df, f),
                                                 quasi_identifiers)
            IN  /\ permuted.raised = ret.raised
                /\ ret.raised = "none" =>
                       /\ Len(permuted.results) = Len(df)
                       /\ \A i \in 1..Len(df) :
                              /\ permuted.results[i].record_index
                                     = df[f[i]].idx
                              /\ permuted.results[i].k_anonymity
                                     = ret.results[f[i]].k_anonymity

\* three rows, the first and the last in one group of two that a reordering
\* makes adjacent
C19_Witness ==
    /\ pc = "done"
    /\ ret.raised = "none"
    /\ Len(df) = 3
    /\ quasi_identifiers = <<"age">>
    /\ df[1].age = df[3].age
    /\ df[1].age # df[2].age
    /\ ret.results[1].k_anonymity = 2
    /\ ret.results[2].k_anonymity = 1
    /\ ret.results[3].k_anonymity = 2

\* C20: duplicate QI-sets are not deduplicated.  When quasi_identifier_sets
\* is m >= 2 copies of one QI-set and calculate_risk_scores returns for a
\* dataset whose row labels are distinct, a record unique under the QI-set
\* has unique_on_qi_count = m and is scored by rule 1 over a total of m
\* (high, 0.9 + m/m * 0.1 = 1.0, unique on m combinations); every other
\* record has count 0.
C20_DuplicateSetsCounted ==
    (/\ pc = "done"
     /\ ret.raised = "none"
     /\ UniqueLabels(df)
     /\ Len(quasi_identifier_sets) >= 2
     /\ \A j \in 1..Len(quasi_identifier_sets) :
            quasi_identifier_sets[j] = quasi_identifier_sets[1])
        => \A p \in 1..Len(df) :
               LET rs == ret.risk_scores[p]
                   m == Len(quasi_identifier_sets)
               IN  IF KOf(df, quasi_identifier_sets[1], p) = 1
                   THEN /\ rs.unique_on_qi_count = m
                        /\ rs.risk_level = "high"
                        /\ FEq(rs.risk_score,
                               FAdd(Frac(9, 10),
                                    FMul(Frac(m, m), Frac(1, 10))))
                        /\ rs.reasoning = Reasoning("Unique on", m)
                   ELSE rs.unique_on_qi_count = 0

\* a record unique under <<"age">>, listed twice, scored as unique on 2
C20_Witness ==
    /\ pc = "done"
    /\ ret.raised = "none"
    /\ UniqueLabels(df)
    /\ quasi_identifier_sets = <<<<"age">>, <<"age">>>>
    /\ Len(df) >= 2
    /\ KOf(df, <<"age">>, 1) = 1
    /\ ret.risk_scores[1].unique_on_qi_count = 2
    /\ FEq(ret.risk_scores[1].risk_score, Frac(1, 1))
    /\ ret.risk_scores[1].reasoning = Reasoning("Unique on", 2)


\* ------------------------------------------------- the caller's dataset
FrameColumns(frame) == UNION {DOMAIN frame[i] : i \in 1..Len(frame)}

\* C21: no engine operation mutates the caller's dataset.  Over every step
\* of calculate_uniqueness, calculate_risk_scores, generate_risk_report,
\* assess_dataset and get_high_risk_records, returning or raising, df keeps
\* its rows, row order, columns and values; the frame get_high_risk_records
\* returns is another object, and it alone has the columns risk_score and
\* risk_reasoning.
C21_DatasetNotMutated ==
    [][/\ df' = df
       /\ (pc' = "selected" /\ ret'.raised = "none") =>
              /\ \A i \in 1..Len(ret'.heap["result_df"]) :
                     {"risk_score", "risk_reasoning"}
                         \subseteq DOMAIN ret'.heap["result_df"][i]
              /\ FrameColumns(df') \cap {"risk_score", "risk_reasoning"}
                     = {}]_vars

\* a returned selection of as many rows as the dataset has
C21_Witness ==
    /\ pc = "selected"
    /\ ret.raised = "none"
    /\ Len(df) = 2
    /\ Len(ret.heap["result_df"]) = 2
    /\ "risk_score" \in DOMAIN ret.heap["result_df"][1]
    /\ FrameColumns(df) = {"idx", "age", "zip"}


\* ------------------------------------------------- the report reduction
\* the values of a report that reduce the list: total, counts, percentages,
\* average and minimum
Reduced(report) ==
    <<report.total_records,
      report.high_risk_count, report.medium_risk_count,
      report.low_risk_count,
      report.high_risk_percentage, report.medium_risk_percentage,
      report.low_risk_percentage,
      report.average_k_anonymity, report.min_k_anonymity>>

\* the entries of scores at the positions P, in their order
SubList(scores, P) ==
    LET nth(i) == CHOOSE p \in P : Cardinality({q \in P : q < p}) = i - 1
    IN  [i \in 1..Cardinality(P) |-> scores[nth(i)]]

\* the whole-list report is the combination of the reports of the two
\* parts: counts and totals added, percentages and mean from the sums
CombinesCountsAndMean(whole, a, ksA, b, ksB) ==
    LET total == a.total_records + b.total_records
    IN  /\ whole.total_records = total
        /\ whole.high_risk_count = a.high_risk_count + b.high_risk_count
        /\ whole.medium_risk_count
               = a.medium_risk_count + b.medium_risk_count
        /\ whole.low_risk_count = a.low_risk_count + b.low_risk_count
        /\ whole.high_risk_percentage
               = Round2(Percentage(a.high_risk_count + b.high_risk_count,
                                   total))
        /\ whole.medium_risk_percentage
               = Round2(Percentage(
                            a.medium_risk_count + b.medium_risk_count, total))
        /\ whole.low_risk_percentage
               = Round2(Percentage(a.low_risk_count + b.low_risk_count,
                                   total))
        /\ whole.average_k_anonymity
               = Round2(IF total > 0
                        THEN Frac(SumOf(ksA) + SumOf(ksB), total)
                        ELSE Frac(0, 1))

Min(a, b) == IF a <= b THEN a ELSE b

OrderIndependent ==
    \A f \in RowOrders(Len(risk_scores_arg)) :
        Reduced(generate_risk_report(
                    df, [i \in 1..Len(risk_scores_arg) |->
                            risk_scores_arg[f[i]]])) = Reduced(ret)

\* C22 as claimed: permuting the RiskScore list leaves the reduced values
\* unchanged, and for any split of the list into two parts the whole-list
\* values are the combination of the parts' values: counts added, the
\* minimum of the two minima, the mean from the summed k and summed totals.
C22_ReductionDecomposable ==
    pc = "done" =>
        /\ OrderIndependent
        /\ \A P \in SUBSET (1..Len(risk_scores_arg)) :
               LET partA == SubList(risk_scores_arg, P)
                   partB == SubList(risk_scores_arg,
                                    (1..Len(risk_scores_arg)) \ P)
                   a == generate_risk_report(df, partA)
                   b == generate_risk_report(df, partB)
               IN  /\ CombinesCountsAndMean(ret, a, KValues(partA),
                                            b, KValues(partB))
                   /\ ret.min_k_anonymity
                          = Min(a.min_k_anonymity, b.min_k_anonymity)

\* C22 amended: as claimed, with the minimum combined over the non-empty
\* parts only (the minimum reported for an empty part is 0, below every k).
C22_ReductionDecomposableNonEmpty ==
    pc = "done" =>
        /\ OrderIndependent
        /\ \A P \in SUBSET (1..Len(risk_scores_arg)) :
               LET partA == SubList(risk_scores_arg, P)
                   partB == SubList(risk_scores_arg,
                                    (1..Len(risk_scores_arg)) \ P)
                   a == generate_risk_report(df, partA)
                   b == generate_risk_report(df, partB)
               IN  /\ CombinesCountsAndMean(ret, a, KValues(partA),
                                            b, KValues(partB))
                   /\ ret.min_k_anonymity
                          = IF Len(partA) = 0 THEN b.min_k_anonymity
                            ELSE IF Len(partB) = 0 THEN a.min_k_anonymity
                            ELSE Min(a.min_k_anonymity, b.min_k_anonymity)

\* k 11, 2, 5 in this order: the minimum is neither first nor last
C22_Witness ==
    /\ pc = "done"
    /\ KValues(risk_scores_arg) = <<11, 2, 5>>
    /\ ret.min_k_anonymity = 2
    /\ ret.average_k_anonymity = Frac(600, 100)
    /\ ret.high_risk_count = 1


ScoreAt(unique_count, total_qi_sets, min_k) ==
    determine_risk_level(unique_count, total_qi_sets, min_k).risk_score

\* C24: a medium-risk score (rule 4: unique_count <= 1, 3 <= min_k <= 9)
\* strictly decreases as min_k increases, from 0.75 at min_k = 3 to 0.55 at
\* min_k = 9.
C24_MediumScoreCurve ==
    (pc = "done" /\ dargs.unique_count <= 1
                 /\ 3 <= dargs.min_k /\ dargs.min_k <= 9)
        => /\ ret.risk_level = "medium"
           /\ dargs.min_k = 3 => FEq(ret.risk_score, Frac(75, 100))
           /\ dargs.min_k = 9 => FEq(ret.risk_score, Frac(55, 100))
           /\ dargs.min_k < 9 =>
                  FLt(ScoreAt(dargs.unique_count, dargs.total_qi_sets,
                              dargs.min_k + 1),
                      ret.risk_score)

C26_UniqueOnOneIsMedium ==
    (pc = "done" /\ dargs.unique_count = 1 /\ dargs.min_k = 2)
        => /\ ret.risk_level = "medium"
           /\ FLe(Frac(5, 10), ret.risk_score)
           /\ FLt(ret.risk_score, Frac(9, 10))
           /\ ret.reasoning = Reasoning("Unique on", 1)

\* C28: for a fixed number of QI-sets the score never decreases when the
\* record is unique on more of them: for total_qi_sets >= 1 and
\* 1 <= u1 <= u2 <= total_qi_sets, with min_k = 1, the score for u2 is at
\* least the score for u1.
C28_MonotoneInUniqueCount ==
    (pc = "done" /\ dargs.min_k = 1 /\ dargs.total_qi_sets >= 1
                 /\ 1 <= dargs.unique_count
                 /\ dargs.unique_count <= dargs.total_qi_sets)
        => \A u2 \in dargs.unique_count..dargs.total_qi_sets :
               FLe(ret.risk_score, ScoreAt(u2, dargs.total_qi_sets, 1))

\* C29: for unique_count <= 1 the score is non-increasing in min_k across
\* all rule boundaries: for 1 <= k1 <= k2, score(k2) <= score(k1).
C29_MonotoneInMinK ==
    (pc = "done" /\ dargs.unique_count <= 1)
        => \A k2 \in dargs.min_k..(MaxMinK + 1) :
               FLe(ScoreAt(dargs.unique_count, dargs.total_qi_sets, k2),
                   ret.risk_score)

\* the step from the last high to the first medium score: 0.90 at min_k = 2,
\* 0.75 at min_k = 3
C29_Witness ==
    /\ pc = "done"
    /\ dargs.unique_count = 0
    /\ dargs.min_k = 2
    /\ FEq(ret.risk_score, Frac(90, 100))
    /\ FEq(ScoreAt(0, dargs.total_qi_sets, 3), Frac(75, 100))


\* ------------------------------------------------- level and k
\* C27: in every RiskScore calculate_risk_scores produces from at least one
\* QI-set the level is a function of k_anonymity alone: 'high' exactly when
\* k_anonymity <= 2, 'medium' exactly when 3 <= k_anonymity <= 9, 'low'
\* exactly when k_anonymity >= 10; and unique_on_qi_count >= 1 exactly when
\* k_anonymity == 1.
C27_LevelIsFunctionOfK ==
    (pc = "done" /\ ret.raised = "none" /\ Len(quasi_identifier_sets) >= 1)
        => \A p \in 1..Len(ret.risk_scores) :
               LET rs == ret.risk_scores[p]
               IN  /\ rs.k_anonymity >= 1
                   /\ rs.risk_level = "high" <=> rs.k_anonymity <= 2
                   /\ rs.risk_level = "medium"
                          <=> (3 <= rs.k_anonymity /\ rs.k_anonymity <= 9)
                   /\ rs.risk_level = "low" <=> rs.k_anonymity >= 10
                   /\ rs.unique_on_qi_count >= 1 <=> rs.k_anonymity = 1

\* a record unique under both of two QI-sets (rule 1) beside a group of 10
C27_Witness ==
    /\ pc = "done"
    /\ ret.raised = "none"
    /\ Len(quasi_identifier_sets) = 2
    /\ \E p \in 1..Len(ret.risk_scores) :
           /\ ret.risk_scores[p].unique_on_qi_count = 2
           /\ ret.risk_scores[p].k_anonymity = 1
           /\ ret.risk_scores[p].risk_level = "high"
    /\ \E p \in 1..Len(ret.risk_scores) :
           /\ ret.risk_scores[p].k_anonymity = 10
           /\ ret.risk_scores[p].risk_level = "low"


\* ------------------------------------------------- record identity
\* C30: for any row labelling of the dataset, also labels other than 0..n-1
\* and repeated labels, calculate_risk_scores gives the record at position p
\* the uniqueness results of the row at position p: its k_anonymity is that
\* row's minimum k over the QI-sets and its unique_on_qi_count the number of
\* QI-sets under which that row is alone; the call does not end in the
\* 'Could not find uniqueness result' error.  (Stated for datasets without
\* a missing QI value.)
C30_OwnResultForAnyLabelling ==
    (/\ pc = "done"
     /\ ValidQISets(quasi_identifier_sets)
     /\ \A j \in 1..Len(quasi_identifier_sets), i \in 1..Len(df) :
            ~HasMissingValue(df, quasi_identifier_sets[j], i))
        => /\ ret.raised = "none"
           /\ \A p \in 1..Len(df) :
                  LET rs == ret.risk_scores[p]
                      own == [j \in 1..Len(quasi_identifier_sets) |->
                                 KOf(df, quasi_identifier_sets[j], p)]
                  IN  /\ rs.k_anonymity = MinOf(own)
                      /\ rs.unique_on_qi_count =
                             Cardinality({j \in DOMAIN own : own[j] = 1})

====
